---- MODULE Spec2Model ----
(***************************************************************************)
(* leafy-db: the write-batching and cache-consistency engine of           *)
(* LeafyDBManager / LeafyDBTable (src/src/index.js, lines 452-814) over   *)
(* the GitDB adapter (src/src/types.ts).                                  *)
(*                                                                         *)
(* One JavaScript thread: every action below is one run-to-completion     *)
(* piece of code (a caller's synchronous call, a timer callback up to its *)
(* first await, or the continuation that runs when a network request      *)
(* settles).                                                               *)
(***************************************************************************)
EXTENDS Integers, Sequences, FiniteSets, TLC

\* ------------------------------------------------------------------ bounds
MaxObjs == 3       \* LeafyDBTable objects constructed by Manager.table
MaxDirect == 2     \* the same, where tables are also connected directly
MaxOps == 2        \* set/delete calls that return a promise
MaxFlight == 2     \* commits of one table in flight at the same time

Paths == {"a.json", "b.json"}
Objs == 1..MaxObjs
Values == {1, 2}
Undef == 0         \* JavaScript undefined, as a value

\* ------------------------------------------------------------ StringLike keys
\* A key is a string, a number or a boolean (typedef StringLike).
StrKey(s) == [t |-> "str", s |-> s, n |-> 0, b |-> FALSE]
NumKey(n) == [t |-> "num", s |-> "", n |-> n, b |-> FALSE]
BoolKey(b) == [t |-> "bool", s |-> "", n |-> 0, b |-> b]
KeyInputs == {StrKey("k"), StrKey("1"), NumKey(1)}

Digit(d) == <<"0", "1", "2", "3", "4", "5", "6", "7", "8", "9">>[d + 1]

RECURSIVE NumStr(_)
NumStr(n) == IF n < 10 THEN Digit(n) ELSE NumStr(n \div 10) \o Digit(n % 10)

\* Mutant of ToStr: a number or boolean key keeps an entry of its own.
ToStrTyped(k) ==
  CASE k.t = "str" -> k.s
    [] k.t = "num" -> "#" \o NumStr(k.n)
    [] k.t = "bool" -> IF k.b THEN "#true" ELSE "#false"

\* key + "" : the string form of a key
ToStr(k) ==
  CASE k.t = "str" -> k.s
    [] k.t = "num" -> NumStr(k.n)
    [] k.t = "bool" -> IF k.b THEN "true" ELSE "false"

\* --------------------------------------------------------------- store values
NoMap == [x \in {} |-> 0]
UndefStore == [kind |-> "undef", m |-> NoMap]
NullStore == [kind |-> "null", m |-> NoMap]
ObjStore(m) == [kind |-> "obj", m |-> m]
EmptyObj == ObjStore(NoMap)

\* !store : JavaScript falsiness of #cache_store
Falsy(s) == s.kind # "obj"

\* What the remote file may hold before the program first looks at it.
UnknownRemote == [kind |-> "unknown", m |-> NoMap]
MissingRemote == [kind |-> "missing", m |-> NoMap]
RemoteInit == {MissingRemote, NullStore, ObjStore([x \in {"k"} |-> 1])}

MapSet(m, k, v) == [x \in (DOMAIN m) \cup {k} |-> IF x = k THEN v ELSE m[x]]
MapDel(m, k) == [x \in (DOMAIN m) \ {k} |-> m[x]]
MapGet(m, k) == IF k \in DOMAIN m THEN m[k] ELSE Undef

RemoveAt(s, i) == SubSeq(s, 1, i - 1) \o SubSeq(s, i + 1, Len(s))

VARIABLES
  closed,        \* LeafyDBManager.closed
  tables,        \* LeafyDBManager.tables: the table objects in key order
  nobj,          \* LeafyDBTable objects constructed so far
  file,          \* table -> #file.path
  events,        \* table -> "default" | "custom" (the _.events of the table)
  isConnected,   \* table -> _.isConnected
  store,         \* table -> #cache_store
  applied,       \* table -> promises whose mutation the current store object holds
  queue,         \* table -> commitWaitQuene
  commitTimer,   \* table -> whether _.commitTimer holds a running interval
  intervals,     \* table -> the intervals set by openCommitTimer and not cleared
  flights,       \* table -> the _.commit calls in flight
  conn,          \* table -> the _.connect calls in flight
  mconn,         \* the Manager.connect call in flight
  call,          \* the Manager.commitAll call in flight
  remote,        \* path -> the file in the repository
  promise,       \* the promises returned by set/delete, in creation order
  last           \* the step just taken and what it returned or threw

vars == <<closed, tables, nobj, file, events, isConnected, store, applied, queue,
          commitTimer, intervals, flights, conn, mconn, call, remote, promise, last>>

tvars == <<tables, nobj, file, events>>
wvars == <<queue, commitTimer, intervals, flights, call, promise>>

Ev(op, o, err, k, p, m) ==
  [op |-> op, o |-> o, err |-> err, k |-> k, p |-> p, m |-> m, res |-> Undef]
EvRes(op, o, err, k, res) ==
  [op |-> op, o |-> o, err |-> err, k |-> k, p |-> 0, m |-> "", res |-> res]

IdleProc == [pc |-> "idle", list |-> <<>>, i |-> 0]
IdleConn == [mgr |-> "idle", dir |-> "idle"]

Init ==
  /\ closed = TRUE
  /\ tables = <<>>
  /\ nobj = 0
  /\ file = [o \in Objs |-> ""]
  /\ events = [o \in Objs |-> "default"]
  /\ isConnected = [o \in Objs |-> FALSE]
  /\ store = [o \in Objs |-> UndefStore]
  /\ applied = [o \in Objs |-> {}]
  /\ queue = [o \in Objs |-> <<>>]
  /\ commitTimer = [o \in Objs |-> FALSE]
  /\ intervals = [o \in Objs |-> 0]
  /\ flights = [o \in Objs |-> <<>>]
  /\ conn = [o \in Objs |-> IdleConn]
  /\ mconn = IdleProc
  /\ call = IdleProc
  /\ remote = [p \in Paths |-> UnknownRemote]
  /\ promise = <<>>
  /\ last = Ev("new", 0, "", "", 0, "")

\* ------------------------------------------------------------ the event loop
\* A commit that has resolved its waiters and not yet returned to its caller is
\* inside one run of the microtask queue: no timer and no network completion
\* can run there, only the continuations of the promises it resolved.
InCommitTail(f) == f.pc \in {"resolved", "reset"}
MacroOK == \A o \in Objs : \A i \in DOMAIN flights[o] : ~InCommitTail(flights[o][i])
CallerOK ==
  \/ MacroOK
  \/ \E o \in Objs : \E i \in DOMAIN flights[o] :
        InCommitTail(flights[o][i]) /\ flights[o][i].got > 0

Created(o) == o \in 1..nobj

\* ------------------------------------------------------------------ Manager
\* Mutant of TablesAfter: every registration adds an entry of its own.
TablesAfterAppend(p, o) == Append(tables, o)

\* table(pathToFile, events): a new table object takes the path's entry; an
\* entry that exists keeps its place in the key order.
TablesAfter(p, o) ==
  IF \E i \in DOMAIN tables : file[tables[i]] = p
    THEN [i \in DOMAIN tables |-> IF file[tables[i]] = p THEN o ELSE tables[i]]
    ELSE Append(tables, o)

Table(p, ev) ==
  /\ CallerOK
  /\ nobj < MaxObjs
  /\ LET o == nobj + 1 IN
       /\ nobj' = o
       /\ file' = [file EXCEPT ![o] = p]
       /\ events' = [events EXCEPT ![o] = ev]
       /\ tables' = TablesAfter(p, o)
       /\ last' = Ev("table", o, "", "", 0, "")
  /\ UNCHANGED <<closed, isConnected, store, applied, conn, mconn, remote>>
  /\ UNCHANGED wvars

\* Object.values(this.tables).filter((e) => !e._.isConnected)
ToConnect == SelectSeq(tables, LAMBDA o : ~isConnected[o])

\* The loop of Manager.connect after table o's connect settled: the next
\* table's connect is called, or the loop ends (closed = false), or it throws.
MoreToConnect == mconn.i < Len(mconn.list)
\* Mutant of ConnAfter: the loop goes on to the next table after a failure.
ConnAfterKeepGoing(o, by, ok) ==
  LET c1 == [conn EXCEPT ![o][by] = "idle"] IN
  IF by = "mgr" /\ mconn.i < Len(mconn.list)
    THEN [c1 EXCEPT ![mconn.list[mconn.i + 1]]["mgr"] = "fetch"]
    ELSE c1

ConnAfter(o, by, ok) ==
  LET c1 == [conn EXCEPT ![o][by] = "idle"] IN
  IF by = "mgr" /\ ok /\ MoreToConnect
    THEN [c1 EXCEPT ![mconn.list[mconn.i + 1]]["mgr"] = "fetch"]
    ELSE c1
MconnAfter(by, ok) ==
  IF by # "mgr" THEN mconn
  ELSE IF ok /\ MoreToConnect THEN [mconn EXCEPT !.i = @ + 1]
  ELSE IdleProc
\* Mutant of ClosedAfterConnect: closed is cleared when the call ends, thrown or not.
ClosedAfterConnectAlways(by, ok) ==
  IF by = "mgr" /\ (~ok \/ ~MoreToConnect) THEN FALSE ELSE closed
ClosedAfterConnect(by, ok) ==
  IF by = "mgr" /\ ok /\ ~MoreToConnect THEN FALSE ELSE closed
MOutcome(by, ok) ==
  IF by # "mgr" THEN ""
  ELSE IF ~ok THEN "fail"
  ELSE IF MoreToConnect THEN "next" ELSE "done"

Connect ==
  /\ CallerOK
  /\ mconn.pc = "idle"
  /\ IF Len(ToConnect) < 1
       THEN /\ last' = Ev("connect", 0, "", "", 0, "none")
            /\ UNCHANGED <<mconn, conn>>
       ELSE /\ mconn' = [pc |-> "run", list |-> ToConnect, i |-> 1]
            /\ conn' = [conn EXCEPT ![ToConnect[1]]["mgr"] = "fetch"]
            /\ last' = Ev("connect", ToConnect[1], "", "", 0, "run")
  /\ UNCHANGED <<closed, isConnected, store, applied, remote>>
  /\ UNCHANGED tvars
  /\ UNCHANGED wvars

\* table._.connect() called by the caller on the table itself
TableConnect(o) ==
  /\ CallerOK
  /\ Created(o)
  /\ conn[o]["dir"] = "idle"
  /\ conn' = [conn EXCEPT ![o]["dir"] = "fetch"]
  /\ last' = Ev("tconnect", o, "", "", 0, "")
  /\ UNCHANGED <<closed, isConnected, store, applied, mconn, remote>>
  /\ UNCHANGED tvars
  /\ UNCHANGED wvars

\* A commit that took this.t.#Cache before the store was replaced keeps the
\* object it took.
Frozen(o) ==
  [i \in DOMAIN flights[o] |->
     IF flights[o][i].live
       THEN [flights[o][i] EXCEPT !.live = FALSE, !.data = store[o], !.ids = applied[o]]
       ELSE flights[o][i]]

\* this.t.#Cache = v  (set #Cache)
CacheAssign(o, s) ==
  /\ store' = [store EXCEPT ![o] = s]
  /\ applied' = [applied EXCEPT ![o] = {}]
  /\ flights' = [flights EXCEPT ![o] = Frozen(o)]

RemoteChoices(p) == IF remote[p].kind = "unknown" THEN RemoteInit ELSE {remote[p]}

\* Mutant of NeedsCreate: connect without the lazy create.
NeedsCreateNever(s) == FALSE

\* if (!this.t.#cache_store) : the lazy create is needed
NeedsCreate(s) == Falsy(s)

\* isConnected after GitDB.get resolved (set inside the try, before the check)
ConnectedAfterGet(c) == TRUE

ConnectSettled(o, by, ok, op, err) ==
  /\ conn' = ConnAfter(o, by, ok)
  /\ mconn' = MconnAfter(by, ok)
  /\ closed' = ClosedAfterConnect(by, ok)
  /\ last' = Ev(op, o, err, by, 0, MOutcome(by, ok))

\* GitDB.get(file) settles inside _.connect
FetchDone(o, by, net) ==
  /\ MacroOK
  /\ conn[o][by] = "fetch"
  /\ UNCHANGED tvars
  /\ UNCHANGED <<queue, commitTimer, intervals, call, promise>>
  /\ IF net = "neterr"
       THEN /\ ConnectSettled(o, by, FALSE, "fetchErr", "Error")
            /\ UNCHANGED <<isConnected, store, applied, flights, remote>>
       ELSE \E r \in RemoteChoices(file[o]) :
         /\ remote' = [remote EXCEPT ![file[o]] = r]
         /\ IF r.kind = "missing"
              THEN /\ UNCHANGED <<isConnected, store, applied, flights>>
                   /\ IF NeedsCreate(store[o])
                        THEN /\ conn' = [conn EXCEPT ![o][by] = "create"]
                             /\ last' = Ev("fetch404", o, "", by, 0, "")
                             /\ UNCHANGED <<mconn, closed>>
                        ELSE ConnectSettled(o, by, TRUE, "fetch404", "")
              ELSE /\ CacheAssign(o, r)
                   /\ isConnected' = [isConnected EXCEPT ![o] = ConnectedAfterGet(r)]
                   /\ IF NeedsCreate(r)
                        THEN /\ conn' = [conn EXCEPT ![o][by] = "create"]
                             /\ last' = Ev("fetchOk", o, "", by, 0, "")
                             /\ UNCHANGED <<mconn, closed>>
                        ELSE ConnectSettled(o, by, TRUE, "fetchOk", "")

\* GitDB.create(file) settles inside _.connect: a PUT without sha, which the
\* host refuses when the file exists.
CreateDone(o, by, net) ==
  /\ MacroOK
  /\ conn[o][by] = "create"
  /\ UNCHANGED tvars
  /\ UNCHANGED <<queue, commitTimer, intervals, call, promise>>
  /\ IF net = "ok" /\ remote[file[o]].kind = "missing"
       THEN /\ remote' = [remote EXCEPT ![file[o]] = EmptyObj]
            /\ CacheAssign(o, EmptyObj)
            /\ isConnected' = [isConnected EXCEPT ![o] = TRUE]
            /\ ConnectSettled(o, by, TRUE, "createOk", "")
       ELSE /\ ConnectSettled(o, by, FALSE, "createErr", "Error")
            /\ UNCHANGED <<isConnected, store, applied, flights, remote>>

\* Mutant of Reconnect: closed is cleared whatever the probe answered.
ReconnectBlind(net) ==
  /\ MacroOK
  /\ closed' = FALSE
  /\ last' = Ev("reconnect", 0, IF net = "ok" THEN "" ELSE "Error", "", 0, "")
  /\ UNCHANGED <<isConnected, store, applied, conn, mconn, remote>>
  /\ UNCHANGED tvars
  /\ UNCHANGED wvars

\* reconnect(): GitDB.test settles
Reconnect(net) ==
  /\ MacroOK
  /\ closed' = IF net = "ok" THEN FALSE ELSE closed
  /\ last' = Ev("reconnect", 0, IF net = "ok" THEN "" ELSE "Error", "", 0, "")
  /\ UNCHANGED <<isConnected, store, applied, conn, mconn, remote>>
  /\ UNCHANGED tvars
  /\ UNCHANGED wvars

\* manager.closed = true
Close ==
  /\ CallerOK
  /\ closed' = TRUE
  /\ last' = Ev("close", 0, "", "", 0, "")
  /\ UNCHANGED <<isConnected, store, applied, conn, mconn, remote>>
  /\ UNCHANGED tvars
  /\ UNCHANGED wvars


\* -------------------------------------------------------------------- hooks
\* _.events.beforeSet / beforeGet: the defaults return the value; a table
\* registered with events stores a shifted form and reads it back shifted.
BeforeSet(o, k, v) == IF events[o] = "custom" THEN v + 2 ELSE v
BeforeGet(o, k, v) ==
  IF events[o] = "custom" THEN (IF v = Undef THEN Undef ELSE v + 4) ELSE v

\* Mutant of CacheErr: the getter hands out the store without the isConnected check.
CacheErrUnchecked(o) == IF store[o].kind # "obj" THEN "TypeError" ELSE ""

\* Mutant of CacheErr: the connected check is made on a closed Manager only.
CacheErrWhenClosed(o) ==
  IF closed /\ ~isConnected[o] THEN "NotConnected"
  ELSE IF store[o].kind # "obj" THEN "TypeError"
  ELSE ""

\* get #Cache, followed by the access to the object it returned
CacheErr(o) ==
  IF ~isConnected[o] THEN "NotConnected"
  ELSE IF store[o].kind # "obj" THEN "TypeError"
  ELSE ""

\* Mutant of CachePut: a key that is present keeps its first value.
CachePutIfAbsent(m, k, v) == IF k \in DOMAIN m THEN m ELSE MapSet(m, k, v)

\* this.#Cache[key] = value
CachePut(m, k, v) == MapSet(m, k, v)
\* Reflect.deleteProperty(this.#Cache, key): true for a plain object's own or
\* missing property
CacheDelete(m, k) == MapDel(m, k)
DeleteResult(m, k) == TRUE

\* Mutant of WaitErr: waitForCommit without the closed check.
WaitErrNone == ""

\* ------------------------------------------------------------ waitForCommit
\* if (this.#m.closed) throw
WaitErr == IF closed THEN "Closed" ELSE ""
\* Mutant of IntervalsAfterOpen: openCommitTimer without its guard.
IntervalsAlwaysOpened(t, n) == n + 1

\* The running intervals after openCommitTimer(): none is added when the
\* field holds one.
IntervalsAfterOpen(t, n) == IF t THEN n ELSE n + 1

\* clearInterval(this.commitTimer): the interval the field holds stops.
IntervalsAfterClear(t, n) == IF t THEN n - 1 ELSE n

\* _.openCommitTimer(): if (this.commitTimer) return; else setInterval
OpenCommitTimer(t) == TRUE
\* this.commitWaitQuene.push(() => r(value))
Pushed(q, id, val) == Append(q, [p |-> id, val |-> val])

Mutate(op, o, key, m2, val, arg) ==
  /\ CallerOK
  /\ Created(o)
  /\ Len(promise) < MaxOps
  /\ UNCHANGED tvars
  /\ UNCHANGED <<closed, isConnected, flights, conn, mconn, call, remote>>
  /\ IF CacheErr(o) # ""
       THEN /\ last' = [Ev(op, o, CacheErr(o), key, 0, "") EXCEPT !.res = arg]
            /\ UNCHANGED <<store, applied, queue, commitTimer, intervals, promise>>
       ELSE /\ store' = [store EXCEPT ![o] = ObjStore(m2)]
            /\ IF WaitErr # ""
                 THEN /\ last' = [Ev(op, o, WaitErr, key, 0, "") EXCEPT !.res = arg]
                      /\ UNCHANGED <<applied, queue, commitTimer, intervals, promise>>
                 ELSE LET id == Len(promise) + 1 IN
                      /\ commitTimer' = [commitTimer EXCEPT ![o] = OpenCommitTimer(@)]
                      /\ intervals' = [intervals EXCEPT ![o] = IntervalsAfterOpen(commitTimer[o], @)]
                      /\ queue' = [queue EXCEPT ![o] = Pushed(@, id, val)]
                      /\ promise' = Append(promise, [st |-> "pending", val |-> val,
                                                     incl |-> FALSE, o |-> o])
                      /\ applied' = [applied EXCEPT ![o] = @ \cup {id}]
                      /\ last' = [Ev(op, o, "", key, id, "") EXCEPT !.res = arg]

\* set(key, value)
Set(o, kin, v) ==
  LET key == ToStr(kin) IN
  Mutate("set", o, key, CachePut(store[o].m, key, BeforeSet(o, key, v)), TRUE, v)

\* delete(key)
Delete(o, kin) ==
  LET key == ToStr(kin) IN
  Mutate("delete", o, key, CacheDelete(store[o].m, key),
         DeleteResult(store[o].m, key), Undef)

\* -------------------------------------------------------------------- reads
GetResult(o, kin) == BeforeGet(o, ToStr(kin), MapGet(store[o].m, ToStr(kin)))
HasResult(o, kin) == ToStr(kin) \in DOMAIN store[o].m
KeysResult(o) == DOMAIN store[o].m
CollectionResult(o) == [k \in DOMAIN store[o].m |-> BeforeGet(o, k, store[o].m[k])]
ValuesResult(o) == {<<k, BeforeGet(o, k, store[o].m[k])>> : k \in DOMAIN store[o].m}

Read(op, o, key, res) ==
  /\ CallerOK
  /\ Created(o)
  /\ last' = IF CacheErr(o) # "" THEN EvRes(op, o, CacheErr(o), key, Undef)
             ELSE EvRes(op, o, "", key, res)
  /\ UNCHANGED <<closed, isConnected, store, applied, conn, mconn, remote>>
  /\ UNCHANGED tvars
  /\ UNCHANGED wvars

Get(o, kin) == Read("get", o, ToStr(kin), GetResult(o, kin))
Has(o, kin) == Read("has", o, ToStr(kin), HasResult(o, kin))
Keys(o) == Read("keys", o, "", KeysResult(o))
Collection(o) == Read("collection", o, "", CollectionResult(o))
TableValues(o) == Read("values", o, "", ValuesResult(o))

\* ------------------------------------------------------------------- commit
\* _.commit() up to its first await: GitDB.replace(file, this.t.#Cache) has
\* taken the store object and its pull is in flight.
NewFlight(src) ==
  [src |-> src, pc |-> "pull", live |-> TRUE, data |-> UndefStore, ids |-> {},
   got |-> 0, stale |-> FALSE]

\* Mutant of TimerSkips: the callback without its closed check.
TimerSkipsNever == FALSE

\* The interval's callback: if (closed) return; await this.commit(); ...
TimerSkips == closed

TimerFire(o) ==
  /\ MacroOK
  /\ intervals[o] > 0
  /\ UNCHANGED tvars
  /\ UNCHANGED <<closed, isConnected, store, applied, conn, mconn, remote,
                 queue, commitTimer, intervals, call, promise>>
  /\ IF TimerSkips
       THEN /\ last' = Ev("timer", o, "", "", 0, "skip")
            /\ UNCHANGED flights
       ELSE IF ~isConnected[o]
         THEN /\ last' = Ev("timer", o, "NotConnected", "", 0, "unhandled")
              /\ UNCHANGED flights
         ELSE /\ Len(flights[o]) < MaxFlight
              /\ flights' = [flights EXCEPT ![o] = Append(@, NewFlight("timer"))]
              /\ last' = Ev("timer", o, "", "", 0, "commit")

\* Mutant of QueueAfterFail: the queue is reset whether or not replace succeeded.
QueueDroppedOnFail(q) == <<>>

\* The queue after a commit whose GitDB.replace rejected
QueueAfterFail(q) == q

\* commit() rejects: the timer's callback rejects with it (nobody handles
\* that), commitAll's loop throws.
CommitFailed(o, i, op) ==
  /\ flights' = [flights EXCEPT ![o] = RemoveAt(@, i)]
  /\ queue' = [queue EXCEPT ![o] = QueueAfterFail(@)]
  /\ call' = IF flights[o][i].src = "all" THEN IdleProc ELSE call
  /\ last' = Ev(op, o, "Error", "", 0,
                IF flights[o][i].src = "all" THEN "allFail" ELSE "unhandled")
  /\ UNCHANGED <<commitTimer, intervals, promise, remote>>

\* Mutant of Content: the body sent is an empty object.
ContentEmpty(o, f) == EmptyObj

\* JSON.stringify(obj) in push(): the whole object commit() handed to replace,
\* as it is when the pull has returned.
Content(o, f) == IF f.live THEN store[o] ELSE f.data

\* GitDB.pull inside replace settles; on success push() serialises the object
\* it was given (JSON.stringify) and sends the PUT with the sha pulled.
PullDone(o, i, net) ==
  /\ MacroOK
  /\ i \in DOMAIN flights[o]
  /\ flights[o][i].pc = "pull"
  /\ UNCHANGED tvars
  /\ UNCHANGED <<closed, isConnected, store, applied, conn, mconn>>
  /\ IF net = "ok" /\ remote[file[o]].kind \in {"null", "obj"}
       THEN LET f == flights[o][i]
                g == [f EXCEPT !.pc = "push", !.live = FALSE,
                               !.data = Content(o, f),
                               !.ids = IF f.live THEN applied[o] ELSE f.ids]
            IN /\ flights' = [flights EXCEPT ![o][i] = g]
               /\ last' = Ev("pullOk", o, "", "", 0, "")
               /\ UNCHANGED <<queue, commitTimer, intervals, call, promise, remote>>
       ELSE CommitFailed(o, i, "pullErr")

\* Mutant of Resolved: a flush calls every resolver pending in the Manager.
ResolvedEverywhere(q, ids) ==
  [id \in DOMAIN promise |->
     [promise[id] EXCEPT !.st = "resolved", !.incl = (id \in ids)]]

\* Mutant of Resolved: only the first waiter of the queue is called.
ResolvedHeadOnly(q, ids) ==
  [id \in DOMAIN promise |->
     IF q # <<>> /\ q[1].p = id
       THEN [promise[id] EXCEPT !.st = "resolved", !.incl = (id \in ids)]
       ELSE promise[id]]

\* this.t.commitWaitQuene.map((e) => e())
Resolved(q, ids) ==
  [id \in DOMAIN promise |->
     IF \E j \in DOMAIN q : q[j].p = id
       THEN [promise[id] EXCEPT !.st = "resolved", !.incl = (id \in ids)]
       ELSE promise[id]]

\* A PUT of path p succeeded: the sha every other commit of that file pulled
\* is no longer the file's.
Outdated(o, i, p) ==
  [x \in Objs |->
     [j \in DOMAIN flights[x] |->
        IF x = o /\ j = i THEN [flights[x][j] EXCEPT !.pc = "resolved", !.got = Len(queue[o])]
        ELSE IF file[x] = p /\ flights[x][j].pc = "push"
          THEN [flights[x][j] EXCEPT !.stale = TRUE]
          ELSE flights[x][j]]]

\* GitDB.push inside replace settles; on success replace returns and commit
\* calls every queued resolver.
PushDone(o, i, net) ==
  /\ MacroOK
  /\ i \in DOMAIN flights[o]
  /\ flights[o][i].pc = "push"
  /\ UNCHANGED tvars
  /\ UNCHANGED <<closed, isConnected, store, applied, conn, mconn>>
  /\ IF net = "ok" /\ flights[o][i].data.kind = "obj" /\ ~flights[o][i].stale
       THEN /\ remote' = [remote EXCEPT ![file[o]] = flights[o][i].data]
            /\ promise' = Resolved(queue[o], flights[o][i].ids)
            /\ flights' = Outdated(o, i, file[o])
            /\ last' = Ev("pushOk", o, "", "", 0, "")
            /\ UNCHANGED <<queue, commitTimer, intervals, call>>
       ELSE CommitFailed(o, i, "pushErr")

\* this.t.commitWaitQuene = []  (after await Promise.all)
QueueAfterCommit(q) == <<>>

CommitReset(o, i) ==
  /\ i \in DOMAIN flights[o]
  /\ flights[o][i].pc = "resolved"
  /\ queue' = [queue EXCEPT ![o] = QueueAfterCommit(@)]
  /\ flights' = [flights EXCEPT ![o][i].pc = "reset"]
  /\ last' = Ev("reset", o, "", "", 0, "")
  /\ UNCHANGED tvars
  /\ UNCHANGED <<closed, isConnected, store, applied, conn, mconn, remote,
                 commitTimer, intervals, call, promise>>

\* commit() returned to its caller: the timer's callback clears the interval
\* (clearInterval(this.commitTimer); delete this.commitTimer), commitAll's loop
\* goes on to the next table.
MoreToCommit == call.i < Len(call.list)
NextToCommit == call.list[call.i + 1]

CommitDone(o, i) ==
  /\ i \in DOMAIN flights[o]
  /\ flights[o][i].pc = "reset"
  /\ UNCHANGED tvars
  /\ UNCHANGED <<closed, isConnected, store, applied, conn, mconn, remote,
                 queue, promise>>
  /\ IF flights[o][i].src = "timer"
       THEN /\ commitTimer' = [commitTimer EXCEPT ![o] = FALSE]
            /\ intervals' = [intervals EXCEPT ![o] = IntervalsAfterClear(commitTimer[o], @)]
            /\ flights' = [flights EXCEPT ![o] = RemoveAt(@, i)]
            /\ last' = Ev("commitDone", o, "", "", 0, "timer")
            /\ UNCHANGED call
       ELSE /\ UNCHANGED <<commitTimer, intervals>>
            /\ IF ~MoreToCommit
                 THEN /\ flights' = [flights EXCEPT ![o] = RemoveAt(@, i)]
                      /\ call' = IdleProc
                      /\ last' = Ev("commitDone", o, "", "", 0, "allDone")
                 ELSE IF ~isConnected[NextToCommit]
                   THEN /\ flights' = [flights EXCEPT ![o] = RemoveAt(@, i)]
                        /\ call' = IdleProc
                        /\ last' = Ev("commitDone", o, "NotConnected", "", 0, "allFail")
                   ELSE /\ Len(flights[NextToCommit]) < MaxFlight
                        /\ flights' = [flights EXCEPT ![o] = RemoveAt(@, i),
                                         ![NextToCommit] = Append(@, NewFlight("all"))]
                        /\ call' = [call EXCEPT !.i = @ + 1]
                        /\ last' = Ev("commitDone", o, "", "", 0, "allNext")

\* commitAll(): for (const table of Object.values(this.tables)) await commit()
CommitAll ==
  /\ CallerOK
  /\ call.pc = "idle"
  /\ UNCHANGED tvars
  /\ UNCHANGED <<closed, isConnected, store, applied, conn, mconn, remote,
                 queue, commitTimer, intervals, promise>>
  /\ IF Len(tables) = 0
       THEN /\ last' = Ev("commitAll", 0, "", "", 0, "allDone")
            /\ UNCHANGED <<flights, call>>
       ELSE IF ~isConnected[tables[1]]
         THEN /\ last' = Ev("commitAll", tables[1], "NotConnected", "", 0, "allFail")
              /\ UNCHANGED <<flights, call>>
         ELSE /\ Len(flights[tables[1]]) < MaxFlight
              /\ flights' = [flights EXCEPT ![tables[1]] = Append(@, NewFlight("all"))]
              /\ call' = [pc |-> "run", list |-> tables, i |-> 1]
              /\ last' = Ev("commitAll", tables[1], "", "", 0, "run")

Net == {"ok", "neterr"}
By == {"mgr", "dir"}
EventKinds == {"default", "custom"}

\* The connect life cycle of a Manager: registration, bulk and direct connect,
\* reconnect, close.
NextConnect ==
  \/ \E p \in Paths : nobj < MaxDirect /\ Table(p, "default")
  \/ Connect
  \/ \E o \in Objs : TableConnect(o)
  \/ \E o \in Objs, by \in By, net \in Net : FetchDone(o, by, net)
  \/ \E o \in Objs, by \in By, net \in Net : CreateDone(o, by, net)
  \/ \E net \in Net : Reconnect(net)
  \/ Close

SpecConnect == Init /\ [][NextConnect]_vars

\* The bulk connect of a Manager: registration (a path may be registered
\* again), Manager.connect, reconnect, close.
NextBulk ==
  \/ \E p \in Paths : Table(p, "default")
  \/ Connect
  \/ \E o \in Objs, net \in Net : FetchDone(o, "mgr", net)
  \/ \E o \in Objs, net \in Net : CreateDone(o, "mgr", net)
  \/ \E net \in Net : Reconnect(net)
  \/ Close

SpecBulk == Init /\ [][NextBulk]_vars

\* One table and its cache: the synchronous calls of a table between connect
\* and the first flush.
NextCache ==
  \/ \E p \in Paths, ev \in EventKinds : nobj = 0 /\ Table(p, ev)
  \/ Connect
  \/ \E o \in Objs, net \in Net : FetchDone(o, "mgr", net)
  \/ \E o \in Objs, net \in Net : CreateDone(o, "mgr", net)
  \/ \E net \in Net : Reconnect(net)
  \/ Close
  \/ \E o \in Objs, k \in KeyInputs, v \in Values : Set(o, k, v)
  \/ \E o \in Objs, k \in KeyInputs : Delete(o, k)
  \/ \E o \in Objs, k \in KeyInputs : Get(o, k)
  \/ \E o \in Objs, k \in KeyInputs : Has(o, k)
  \/ \E o \in Objs : Keys(o)
  \/ \E o \in Objs : Collection(o)
  \/ \E o \in Objs : TableValues(o)

SpecCache == Init /\ [][NextCache]_vars

\* One table and its flush timer: set/delete, the interval's firings and the
\* commits they start.
FlushKeys == {NumKey(1)}
NextTable ==
  \/ nobj = 0 /\ Table("a.json", "default")
  \/ Connect
  \/ \E o \in Objs, net \in Net : FetchDone(o, "mgr", net)
  \/ \E o \in Objs, net \in Net : CreateDone(o, "mgr", net)
  \/ \E net \in Net : Reconnect(net)
  \/ Close
  \/ \E o \in Objs, k \in FlushKeys : Set(o, k, 1)
  \/ \E o \in Objs, k \in FlushKeys : Delete(o, k)
  \/ \E o \in Objs : TimerFire(o)
  \/ \E o \in Objs, i \in 1..MaxFlight, net \in Net : PullDone(o, i, net)
  \/ \E o \in Objs, i \in 1..MaxFlight, net \in Net : PushDone(o, i, net)
  \/ \E o \in Objs, i \in 1..MaxFlight : CommitReset(o, i)
  \/ \E o \in Objs, i \in 1..MaxFlight : CommitDone(o, i)

SpecTable == Init /\ [][NextTable]_vars

\* Several tables and commitAll: registration (a path may be registered again),
\* bulk connect, close, set, commitAll and the commits it starts.
NextAll ==
  \/ \E p \in Paths : nobj < MaxDirect /\ Table(p, "default")
  \/ Connect
  \/ \E o \in Objs, net \in Net : FetchDone(o, "mgr", net)
  \/ \E o \in Objs, net \in Net : CreateDone(o, "mgr", net)
  \/ Close
  \/ \E o \in Objs, k \in FlushKeys : Set(o, k, 1)
  \/ CommitAll
  \/ \E o \in Objs, i \in 1..MaxFlight, net \in Net : PullDone(o, i, net)
  \/ \E o \in Objs, i \in 1..MaxFlight, net \in Net : PushDone(o, i, net)
  \/ \E o \in Objs, i \in 1..MaxFlight : CommitReset(o, i)
  \/ \E o \in Objs, i \in 1..MaxFlight : CommitDone(o, i)

SpecAll == Init /\ [][NextAll]_vars

\* Registration and the calls that walk the Manager's mapping: table(), bulk
\* connect and commitAll, with no mutation queued.
NextRegistry ==
  \/ \E p \in Paths : Table(p, "default")
  \/ Connect
  \/ \E o \in Objs, net \in Net : FetchDone(o, "mgr", net)
  \/ \E o \in Objs, net \in Net : CreateDone(o, "mgr", net)
  \/ CommitAll
  \/ \E o \in Objs, i \in 1..MaxFlight, net \in Net : PullDone(o, i, net)
  \/ \E o \in Objs, i \in 1..MaxFlight, net \in Net : PushDone(o, i, net)
  \/ \E o \in Objs, i \in 1..MaxFlight : CommitReset(o, i)
  \/ \E o \in Objs, i \in 1..MaxFlight : CommitDone(o, i)

SpecRegistry == Init /\ [][NextRegistry]_vars

\* One table, two keys and two values: what set calls made before a flush
\* leave in the store and in the file.
PairKeys == {StrKey("k"), NumKey(1)}
NextPair ==
  \/ nobj = 0 /\ Table("a.json", "default")
  \/ Connect
  \/ \E o \in Objs, net \in Net : FetchDone(o, "mgr", net)
  \/ \E o \in Objs, net \in Net : CreateDone(o, "mgr", net)
  \/ \E o \in Objs, k \in PairKeys, v \in Values : Set(o, k, v)
  \/ \E o \in Objs : TimerFire(o)
  \/ \E o \in Objs, i \in 1..MaxFlight, net \in Net : PullDone(o, i, net)
  \/ \E o \in Objs, i \in 1..MaxFlight, net \in Net : PushDone(o, i, net)
  \/ \E o \in Objs, i \in 1..MaxFlight : CommitReset(o, i)
  \/ \E o \in Objs, i \in 1..MaxFlight : CommitDone(o, i)

SpecPair == Init /\ [][NextPair]_vars

\* One table and the forms a key may be given in: string, number, boolean.
KeyForms == {StrKey("1"), NumKey(1), BoolKey(TRUE), StrKey("true"), NumKey(12)}
NextKeys ==
  \/ nobj = 0 /\ Table("a.json", "default")
  \/ Connect
  \/ \E o \in Objs, net \in Net : FetchDone(o, "mgr", net)
  \/ \E o \in Objs, net \in Net : CreateDone(o, "mgr", net)
  \/ \E o \in Objs, k \in KeyForms : Set(o, k, 1)
  \/ \E o \in Objs, k \in KeyForms : Delete(o, k)
  \/ \E o \in Objs, k \in KeyForms : Get(o, k)
  \/ \E o \in Objs, k \in KeyForms : Has(o, k)

SpecKeys == Init /\ [][NextKeys]_vars

\* Two tables of one Manager, each with its file, its queue and its timer,
\* flushed by their timers and by commitAll. A table's timer period is longer
\* than a flush here: its callback runs when no commit of the table is in
\* flight, and commitAll is called between flushes.
NextTwo ==
  \/ nobj = 0 /\ Table("a.json", "default")
  \/ nobj = 1 /\ Table("b.json", "default")
  \/ nobj = 2 /\ Connect
  \/ \E o \in Objs : FetchDone(o, "mgr", "ok")
  \/ \E o \in Objs : CreateDone(o, "mgr", "ok")
  \/ \E o \in Objs, k \in FlushKeys : Set(o, k, 1)
  \/ \E o \in Objs : flights[o] = <<>> /\ TimerFire(o)
  \/ (\A o \in Objs : flights[o] = <<>>) /\ CommitAll
  \/ \E o \in Objs, i \in 1..MaxFlight, net \in Net : PullDone(o, i, net)
  \/ \E o \in Objs, i \in 1..MaxFlight, net \in Net : PushDone(o, i, net)
  \/ \E o \in Objs, i \in 1..MaxFlight : CommitReset(o, i)
  \/ \E o \in Objs, i \in 1..MaxFlight : CommitDone(o, i)

SpecTwo == Init /\ [][NextTwo]_vars

\* One table on an open Manager whose remote requests all get an answer: the
\* interval keeps firing while it is set, every request in flight settles and
\* every continuation runs.
NextLive ==
  \/ nobj = 0 /\ Table("a.json", "default")
  \/ Connect
  \/ \E o \in Objs : FetchDone(o, "mgr", "ok")
  \/ \E o \in Objs : CreateDone(o, "mgr", "ok")
  \/ \E o \in Objs, k \in FlushKeys : Set(o, k, 1)
  \/ \E o \in Objs : TimerFire(o)
  \/ \E o \in Objs, i \in 1..MaxFlight : PullDone(o, i, "ok")
  \/ \E o \in Objs, i \in 1..MaxFlight : PushDone(o, i, "ok")
  \/ \E o \in Objs, i \in 1..MaxFlight : CommitReset(o, i)
  \/ \E o \in Objs, i \in 1..MaxFlight : CommitDone(o, i)

FairLive ==
  /\ \A o \in Objs : WF_vars(TimerFire(o))
  /\ \A o \in Objs, i \in 1..MaxFlight :
        /\ WF_vars(PullDone(o, i, "ok"))
        /\ WF_vars(PushDone(o, i, "ok"))
        /\ WF_vars(CommitReset(o, i))
        /\ WF_vars(CommitDone(o, i))

SpecLive == Init /\ [][NextLive]_vars /\ FairLive

Next ==
  \/ \E p \in Paths, ev \in EventKinds : Table(p, ev)
  \/ Connect
  \/ \E o \in Objs : TableConnect(o)
  \/ \E o \in Objs, by \in By, net \in Net : FetchDone(o, by, net)
  \/ \E o \in Objs, by \in By, net \in Net : CreateDone(o, by, net)
  \/ \E net \in Net : Reconnect(net)
  \/ Close
  \/ \E o \in Objs, k \in KeyInputs, v \in Values : Set(o, k, v)
  \/ \E o \in Objs, k \in KeyInputs : Delete(o, k)
  \/ \E o \in Objs : TimerFire(o)
  \/ \E o \in Objs, i \in 1..MaxFlight, net \in Net : PullDone(o, i, net)
  \/ \E o \in Objs, i \in 1..MaxFlight, net \in Net : PushDone(o, i, net)
  \/ \E o \in Objs, i \in 1..MaxFlight : CommitReset(o, i)
  \/ \E o \in Objs, i \in 1..MaxFlight : CommitDone(o, i)
  \/ CommitAll

Spec == Init /\ [][Next]_vars

\* ===================================================================== claims

\* C1: immediately after a set(k, v) that returned its promise (connected
\* table, open Manager, nothing awaited, no flush in between), get(k) returns
\* beforeGet(k, beforeSet(k, v)).
C1_ReadYourWrites ==
  (last.op = "set" /\ last.p > 0) =>
     /\ CacheErr(last.o) = ""
     /\ GetResult(last.o, StrKey(last.k))
          = BeforeGet(last.o, last.k, BeforeSet(last.o, last.k, last.res))

\* C1 witness: a set of value 2 under a number key on a table with custom
\* hooks returned a promise, and get reads 2 + 2 + 4.
C1_Witness ==
  /\ last.op = "set" /\ last.p > 0 /\ last.k = "1" /\ last.res = 2
  /\ events[last.o] = "custom"
  /\ GetResult(last.o, NumKey(1)) = 8

\* C2 (as claimed): a promise of set/delete is resolved only by a write whose
\* content includes that mutation: when a push succeeds, every waiter it
\* resolves had its mutation applied before the content was taken, or the
\* content written equals the store.
C2_ResolvedByIncludingWrite ==
  (last.op = "pushOk") =>
     \A j \in DOMAIN queue[last.o] :
        \/ promise[queue[last.o][j].p].incl
        \/ remote[file[last.o]] = store[last.o]

\* C3 (as claimed): the calls made before the timer fires cost one remote
\* write: a table never has two timer-started writes under way.
TimerWrites(o) ==
  {i \in DOMAIN flights[o] :
     flights[o][i].src = "timer" /\ flights[o][i].pc \in {"push", "resolved", "reset"}}
C3_OneWritePerCycle == \A o \in Objs : Cardinality(TimerWrites(o)) <= 1

\* C4: when a commit's remote write (pull or push of replace) rejects, the
\* commit rejects, no promise is resolved and the queue holds the same waiters.
C4_FailedFlushKeepsWaiters ==
  [][(last'.op \in {"pullErr", "pushErr"}) =>
       /\ last'.err = "Error"
       /\ queue' = queue
       /\ promise' = promise]_vars

\* C4 witness: a push failed with two waiters queued, both still pending.
C4_Witness ==
  /\ last.op = "pushErr"
  /\ Len(queue[last.o]) = 2
  /\ \A id \in DOMAIN promise : promise[id].st = "pending"

ReadOps == {"get", "has", "keys", "collection", "values"}
C6_ReadsNeedConnect ==
  (last.op \in ReadOps /\ ~isConnected[last.o]) =>
     (last.err = "NotConnected" /\ last.res = Undef)

\* C6 witness: values() called on a registered table before its connect.
C6_Witness ==
  /\ last.op = "values" /\ last.err = "NotConnected"
  /\ Created(last.o) /\ ~isConnected[last.o]

\* C7: when the connect of a table that has no store yet gets 404 from the
\* fetch, it issues the create (one call, in flight for this connect); when
\* that create succeeds the file holds {}, store = {}, connected = true and
\* connect returns without error.
C7_LazyCreate ==
  /\ (last.op = "fetch404" /\ ~isConnected[last.o]) =>
        (conn[last.o][last.k] = "create" /\ last.err = "")
  /\ (last.op = "createOk") =>
        /\ store[last.o] = EmptyObj
        /\ isConnected[last.o]
        /\ remote[file[last.o]] = EmptyObj
        /\ last.err = ""
        /\ conn[last.o][last.k] = "idle"

\* C7 witness: the create of a Manager-driven connect succeeded.
C7_Witness ==
  /\ last.op = "createOk" /\ last.k = "mgr"
  /\ store[last.o] = EmptyObj /\ isConnected[last.o]

\* C8 (as claimed): connect called on a table that is connected returns without
\* an adapter call.
C8_ConnectIdempotent ==
  (last.op = "tconnect" /\ isConnected[last.o]) => conn[last.o]["dir"] = "idle"

\* C9 (as claimed): a connect that fails (fetch error, or failure of the lazy
\* create) leaves the table not connected.
C9_FailedConnectStaysUnconnected ==
  (last.op \in {"fetchErr", "createErr"}) => ~isConnected[last.o]

\* C10: Manager.connect works through its list one table at a time; the first
\* failure ends the call with the error, tables connected before it stay
\* connected and no connect is started for the tables after it.
MgrSlot(o) == conn[o]["mgr"]
C10_OneAtATime ==
  /\ (mconn.pc = "run") =>
        \A j \in DOMAIN mconn.list :
          /\ (j < mconn.i) => (isConnected[mconn.list[j]] /\ MgrSlot(mconn.list[j]) = "idle")
          /\ (j = mconn.i) => MgrSlot(mconn.list[j]) # "idle"
          /\ (j > mconn.i) => MgrSlot(mconn.list[j]) = "idle"
  /\ (mconn.pc = "idle") => \A o \in Objs : MgrSlot(o) = "idle"
  /\ (last.m = "fail") => (mconn.pc = "idle" /\ last.err = "Error")
C10_FailureStep ==
  (last'.m = "fail") =>
     /\ \A j \in DOMAIN mconn.list :
          /\ (j < mconn.i) => isConnected'[mconn.list[j]]
          /\ (j > mconn.i) => (~isConnected'[mconn.list[j]] /\ conn'[mconn.list[j]]["mgr"] = "idle")
     /\ closed' = closed

\* The place of a table in the Manager's mapping
Pos(o) == CHOOSE i \in DOMAIN tables : tables[i] = o
ListedInKeyOrder ==
  (last.op = "connect" /\ last.m = "run") =>
     /\ mconn.i = 1
     /\ \A o \in Objs : (\E j \in DOMAIN mconn.list : mconn.list[j] = o)
                          <=> ((\E i \in DOMAIN tables : tables[i] = o) /\ ~isConnected[o])
     /\ \A a, b \in DOMAIN mconn.list : a < b => Pos(mconn.list[a]) < Pos(mconn.list[b])
ListedInCreationOrder ==
  (last.op = "connect" /\ last.m = "run") =>
     \A a, b \in DOMAIN mconn.list : a < b => mconn.list[a] < mconn.list[b]

ConnectOps == {"fetchOk", "fetch404", "fetchErr", "createOk", "createErr"}
C11_Step ==
  /\ (last'.op = "connect" /\ last'.m = "run") => closed' = closed
  /\ (last'.op \in ConnectOps /\ last'.k = "mgr") =>
        /\ (closed' # closed) => last'.m = "done"
        /\ (last'.m = "done") =>
              (~closed' /\ \A j \in DOMAIN mconn.list : isConnected'[mconn.list[j]])
        /\ (last'.m = "fail") => closed' = closed
C11_ClosedClearedOnlyOnSuccess == [][C11_Step]_vars

\* C11 witness: a bulk connect failed at a fetch after an earlier table had
\* connected, and closed is still true.
C11_Witness ==
  /\ last.op = "fetchErr" /\ last.m = "fail" /\ closed
  /\ \E o \in Objs : isConnected[o]

\* C12: reconnect clears closed when the probe succeeds, throws and leaves
\* closed alone when it fails, and in both cases changes no table's store,
\* connected flag or queue and fetches nothing.
C12_Step ==
  (last'.op = "reconnect") =>
     /\ (last'.err = "") => ~closed'
     /\ (last'.err # "") => (last'.err = "Error" /\ closed' = closed)
     /\ UNCHANGED <<store, isConnected, applied, queue, commitTimer, intervals, flights,
                    conn, mconn, remote, promise>>
C12_ReconnectOnlyClearsClosed == [][C12_Step]_vars

\* C12 witness: a reconnect failed on a closed Manager whose connected table
\* has a waiter queued.
C12_Witness ==
  /\ last.op = "reconnect" /\ last.err = "Error" /\ closed
  /\ \E o \in Objs : isConnected[o] /\ queue[o] # <<>>

\* options.commit.queneSize when the caller gives no minQueneSize
MinQueneSize == 1

\* C13 (as claimed): commitAll starts a write only for a table whose queue
\* holds at least minQueueSize waiters.
C13_ThresholdRespected ==
  \A o \in Objs : \A i \in DOMAIN flights[o] :
     (flights[o][i].src = "all" /\ flights[o][i].pc = "pull" /\ store[o].kind = "obj")
        => Len(queue[o]) >= MinQueneSize

\* C14 (as claimed): when commitAll has started on tables that are all eligible
\* (connected, queue at the threshold), the flush of each of them is under way.
Eligible(o) == isConnected[o] /\ Len(queue[o]) >= MinQueneSize
C14_AllStartedTogether ==
  (/\ last.op = "commitAll" /\ last.m = "run"
   /\ \A j \in DOMAIN call.list : Eligible(call.list[j]))
     => \A j \in DOMAIN call.list : flights[call.list[j]] # <<>>

\* C15 (as claimed): the promise of delete(k) carries whether k was in the
\* store before the call.
C15_Step ==
  (last'.op = "delete" /\ last'.p > 0) =>
     promise'[last'.p].val = (last'.k \in DOMAIN store[last'.o].m)
C15_DeleteTellsExistence == [][C15_Step]_vars

\* C16 (as claimed): at most one flush of a table has a remote request in
\* flight.
InFlight(o) == {i \in DOMAIN flights[o] : flights[o][i].pc \in {"pull", "push"}}
C16_FlushesSerialized == \A o \in Objs : Cardinality(InFlight(o)) <= 1

\* C17 (as claimed): a waiter is resolved only by a flush whose content was
\* taken after its call, and while it is pending it stays in its table's queue
\* with a flush scheduled.
Queued(id) ==
  \E j \in DOMAIN queue[promise[id].o] : queue[promise[id].o][j].p = id
C17_JoinsNextCycle ==
  \A id \in DOMAIN promise :
     /\ (promise[id].st = "resolved") => promise[id].incl
     /\ (promise[id].st = "pending" /\ MacroOK)
           => (Queued(id) /\ commitTimer[promise[id].o])

\* C18 (as claimed): on an open Manager whose remote writes succeed, every
\* promise returned by set is eventually resolved with true.
C18_SetEventuallyResolves ==
  \A id \in 1..MaxOps :
     [](id \in DOMAIN promise =>
          <>(id \in DOMAIN promise /\ promise[id].st = "resolved" /\ promise[id].val))

\* C19 (as claimed): while the Manager is closed no remote write completes and
\* commitAll starts none for a table with waiters.
C19_NoWriteWhileClosed ==
  /\ (last.op = "pushOk") => ~closed
  /\ (last.op = "commitAll" /\ last.m = "run" /\ queue[last.o] # <<>>) => ~closed

\* C20: the Manager's mapping holds one table per registered path, the one
\* registered last, and bulk connect and commitAll take their tables from it.
Latest(o) == \A x \in 1..nobj : (file[x] = file[o]) => x <= o
C20_LastRegistrationWins ==
  /\ \A i, j \in DOMAIN tables : (file[tables[i]] = file[tables[j]]) => i = j
  /\ \A i \in DOMAIN tables : Latest(tables[i])
  /\ \A o \in 1..nobj : \E i \in DOMAIN tables : file[tables[i]] = file[o]
  /\ (last.op = "connect" /\ last.m = "run") =>
        \A j \in DOMAIN mconn.list : Latest(mconn.list[j])
  /\ (last.op = "commitAll" /\ last.m = "run") =>
        /\ call.list = tables
        /\ last.o = tables[1]
        /\ \A o \in Objs : (flights[o] # <<>>) => Latest(o)

\* C20 witness: commitAll started on the table that replaced the first
\* registration of its path.
C20_Witness ==
  /\ last.op = "commitAll" /\ last.m = "run"
  /\ nobj = 3 /\ Len(tables) = 2 /\ last.o = 3
  /\ flights[1] = <<>> /\ flights[3] # <<>>

\* C21: a set that returned its promise leaves its value under its key and
\* the other keys as they were, and a successful flush resolves, in one step
\* and with true, every waiter queued on its table.
C21_Step ==
  /\ (last'.op = "set" /\ last'.p > 0) =>
        store'[last'.o].m =
          MapSet(store[last'.o].m, last'.k, BeforeSet(last'.o, last'.k, last'.res))
  /\ (last'.op = "pushOk") =>
        \A j \in DOMAIN queue[last'.o] :
           LET id == queue[last'.o][j].p IN
           /\ promise[id].st = "pending"
           /\ promise'[id].st = "resolved"
           /\ promise'[id].val = TRUE
C21_TwoSetsOneFlush == [][C21_Step]_vars

\* C21 witness: two sets under different keys were resolved by one push whose
\* content held both values.
C21_Witness ==
  /\ last.op = "pushOk" /\ Len(queue[last.o]) = 2
  /\ \A id \in {1, 2} : promise[id].st = "resolved" /\ promise[id].incl
  /\ remote[file[last.o]].m = [x \in {"k", "1"} |-> 2]

\* C22 (as claimed): no write is sent with a revision of the file that an
\* earlier successful write has replaced.
C22_RevisionNeverReused ==
  \A o \in Objs : \A i \in DOMAIN flights[o] : ~flights[o][i].stale

\* C23 (as claimed): the failure of a timer-started flush does not leave the
\* timer's callback as an unhandled rejection.
C23_TimerFailureSwallowed == last.m # "unhandled"

\* The values a caller may give as options.commit.minQueneSize
QueneSizes == {1, 2}

\* C24 (as claimed): whatever minQueneSize was configured, the timer starts a
\* flush only when the queue holds at least that many waiters.
C24_TimerThreshold ==
  \A n \in QueneSizes :
     (last.op = "timer" /\ last.m = "commit") => Len(queue[last.o]) >= n

\* C25 (as claimed): between flushes the queue of a table holds one waiter for
\* each accepted call whose promise is still pending.
Pending(o) ==
  {id \in DOMAIN promise : promise[id].o = o /\ promise[id].st = "pending"}
C25_QueueCountsAccepted ==
  \A o \in Objs : MacroOK => Len(queue[o]) = Cardinality(Pending(o))

\* C26: a table never has more than one running interval, the one its
\* commitTimer field holds, and a set or delete on a table whose field holds
\* one starts none.
C26_Step ==
  (last'.op \in {"set", "delete"} /\ commitTimer[last'.o]) => intervals' = intervals
C26_OneTimerPerTable ==
  /\ [](\A o \in Objs : intervals[o] <= 1 /\ (commitTimer[o] <=> intervals[o] = 1))
  /\ [][C26_Step]_vars

\* C26 witness: a second accepted call on a table whose interval was running.
C26_Witness ==
  /\ last.op \in {"set", "delete"} /\ last.p = 2
  /\ Len(queue[last.o]) = 2 /\ intervals[last.o] = 1

\* C27: a firing of the interval while the Manager is closed starts no
\* commit, resolves nothing and leaves queue, store and file as they were.
C27_Step ==
  (last'.op = "timer" /\ closed) =>
     /\ last'.m = "skip"
     /\ UNCHANGED <<flights, queue, store, applied, promise, remote>>
C27_ClosedFiringDoesNothing == [][C27_Step]_vars

\* C27 witness: the interval fired on a closed Manager with a waiter queued.
C27_Witness ==
  /\ last.op = "timer" /\ last.m = "skip" /\ closed
  /\ queue[last.o] # <<>> /\ flights[last.o] = <<>>

\* C28 (as claimed): after a firing while closed the table has no interval
\* running.
C28_ClosedFiringClearsTimer ==
  (last.op = "timer" /\ last.m = "skip") =>
     (~commitTimer[last.o] /\ intervals[last.o] = 0)

\* C29 (as claimed): when a timer-started flush fails and leaves waiters
\* queued, an interval of the table is still running (so a later firing tries
\* again with no new call), the waiters are kept, and a later successful
\* flush resolves every waiter of the queue.
FailOps == {"pullErr", "pushErr"}
C29_Step ==
  /\ (last'.op \in FailOps /\ last'.m = "unhandled" /\ queue'[last'.o] # <<>>) =>
        /\ intervals'[last'.o] >= 1
        /\ queue' = queue
        /\ promise' = promise
  /\ (last'.op = "pushOk") =>
        \A j \in DOMAIN queue[last'.o] : promise'[queue[last'.o][j].p].st = "resolved"
C29_FailedFlushRetried == [][C29_Step]_vars

\* C30: the content a flush sends is the table's whole store as it is when the
\* pull has returned and the write is issued; a successful write leaves that
\* content in the file, which equals the store when no mutation came between.
C30_Step ==
  /\ (last'.op = "pullOk") =>
        \E i \in DOMAIN flights[last'.o] :
           /\ flights[last'.o][i].pc = "pull"
           /\ flights'[last'.o][i].pc = "push"
           /\ flights'[last'.o][i].data = store[last'.o]
  /\ (last'.op = "pushOk") =>
        \E i \in DOMAIN flights[last'.o] :
           /\ flights[last'.o][i].pc = "push"
           /\ flights'[last'.o][i].pc = "resolved"
           /\ remote'[file[last'.o]] = flights[last'.o][i].data
           /\ (flights[last'.o][i].ids = applied[last'.o])
                 => remote'[file[last'.o]] = store[last'.o]
C30_WholeStoreWritten == [][C30_Step]_vars

\* C30 witness: a push succeeded whose content holds the key set since the
\* connect and the key fetched at connect and never touched.
C30_Witness ==
  /\ last.op = "pushOk"
  /\ remote[file[last.o]] = store[last.o]
  /\ store[last.o].m = [x \in {"k", "1"} |-> IF x = "k" THEN 1 ELSE 2]

\* C31: every operation turns its key into the key's string form: for a number
\* or boolean key, get and has answer as they do for the string form, set and
\* delete have acted on the entry of the string form, and every key of a store
\* is one of those strings.
StringForms ==
  {<<NumKey(1), "1">>, <<NumKey(12), "12">>, <<BoolKey(TRUE), "true">>,
   <<StrKey("1"), "1">>, <<StrKey("true"), "true">>}
C31_KeysCanonical ==
  /\ last.op \in {"set", "delete", "get", "has"} => last.k \in {"1", "12", "true"}
  /\ \A o \in Objs : store[o].kind = "obj" =>
        /\ DOMAIN store[o].m \subseteq {"k", "1", "12", "true"}
        /\ \A c \in StringForms :
              /\ GetResult(o, c[1]) = MapGet(store[o].m, c[2])
              /\ HasResult(o, c[1]) = (c[2] \in DOMAIN store[o].m)
              /\ CachePut(store[o].m, ToStr(c[1]), 2) = MapSet(store[o].m, c[2], 2)
              /\ CacheDelete(store[o].m, ToStr(c[1])) = MapDel(store[o].m, c[2])
C31_Witness ==
  /\ last.op = "get" /\ last.k = "1" /\ last.res = 1 /\ last.err = ""
  /\ \E o \in Objs : /\ store[o].kind = "obj"
                      /\ {"1", "true"} \subseteq DOMAIN store[o].m
                      /\ GetResult(o, NumKey(1)) = 1
                      /\ HasResult(o, BoolKey(TRUE))

\* C32: a step of a flush of one table (its timer's callback, commitAll, the
\* pull, the write, the queue reset, the return of commit), successful or
\* failed, leaves every other table's queue, promises, store, connected flag
\* and timer as they were, and adds no promise.
FlushOps ==
  {"timer", "commitAll", "pullOk", "pullErr", "pushOk", "pushErr", "reset", "commitDone"}
C32_Step ==
  last'.op \in FlushOps =>
    /\ Len(promise') = Len(promise)
    /\ \A b \in Objs \ {last'.o} :
          /\ queue'[b] = queue[b]
          /\ store'[b] = store[b]
          /\ isConnected'[b] = isConnected[b]
          /\ commitTimer'[b] = commitTimer[b]
          /\ intervals'[b] = intervals[b]
          /\ \A id \in DOMAIN promise : promise[id].o = b => promise'[id] = promise[id]
C32_TablesIndependent == [][C32_Step]_vars
C32_Witness ==
  /\ last.op \in {"pushOk", "pushErr"} /\ last.o = 1
  /\ queue[2] # <<>> /\ commitTimer[2] /\ isConnected[2]
  /\ \E id \in DOMAIN promise : promise[id].o = 2 /\ promise[id].st = "pending"

\* C33: a set or delete that fails with the closed error leaves the table's
\* store as it was before the call.
C33_Step ==
  (last'.op \in {"set", "delete"} /\ last'.err = "Closed") => store' = store
C33_ClosedRejectKeepsStore == [][C33_Step]_vars

\* C34: no waiter leaves a queue unresolved: every waiter the queue reset of a
\* flush removes has been called, also one appended by a set or delete issued
\* in the continuation of a promise that flush resolved.
C34_Step ==
  last'.op = "reset" =>
    \A j \in DOMAIN queue[last'.o] : promise[queue[last'.o][j].p].st = "resolved"
C34_NoWaiterDropped == [][C34_Step]_vars

\* C35: on a Manager that stays open, a connected table that is at rest (empty
\* queue, no interval running, no commit in flight) has a store equal to the
\* content of its remote file: nothing accepted is left unwritten with nothing
\* scheduled to write it.
AtRest(o) ==
  /\ isConnected[o] /\ store[o].kind = "obj"
  /\ queue[o] = <<>> /\ intervals[o] = 0 /\ ~commitTimer[o] /\ flights[o] = <<>>
C35_NothingLeftUnwritten ==
  \A o \in Objs : (~closed /\ AtRest(o)) => remote[file[o]] = store[o]

\* C36: between operations, a table whose queue is not empty has a running
\* interval held by its commitTimer field.
C36_QueuedImpliesTimer ==
  \A o \in Objs : (MacroOK /\ queue[o] # <<>>) => (commitTimer[o] /\ intervals[o] > 0)

\* C37: a timer's callback starts a commit only for a table whose queue is not
\* empty: once commitAll has flushed a table and emptied its queue, the firing
\* of the interval still running writes nothing unless a set or delete came.
C37_TimerWritesOnlyQueued ==
  (last.op = "timer" /\ last.m = "commit") => queue[last.o] # <<>>

\* C38: a set or delete on a table that is not connected fails with the
\* not-connected error whether the Manager is closed or open, and leaves the
\* table's queue, promises, timer and store as they were.
C38_Step ==
  (last'.op \in {"set", "delete"} /\ ~isConnected[last'.o]) =>
    /\ last'.err = "NotConnected"
    /\ queue' = queue /\ promise' = promise
    /\ commitTimer' = commitTimer /\ intervals' = intervals
    /\ store' = store
C38_UnconnectedMutationRejected == [][C38_Step]_vars
C38_Witness ==
  /\ last.op \in {"set", "delete"} /\ last.err = "NotConnected"
  /\ ~closed /\ ~isConnected[last.o]

\* C39: a table whose connected flag is true has a key-value mapping as its
\* store, never undefined or null, whatever the fetch returned and whether or
\* not the lazy create went through.
C39_ConnectedHasMapping ==
  \A o \in Objs : isConnected[o] => store[o].kind = "obj"

\* C40: when Manager.connect returns without an error the Manager is open, also
\* when it found no table left to connect.
ConnectReturned ==
  \/ last.op = "connect" /\ last.m = "none"
  \/ last.op \in ConnectOps /\ last.k = "mgr" /\ last.m = "done"
C40_ConnectOpens == ConnectReturned => ~closed

====
